---- MODULE Spec2Model ----
(***************************************************************************)
(* Model of http::uri::Builder (src/src/uri/builder.rs).                   *)
(*                                                                         *)
(* A Builder owns `parts: Result<Parts>`.  The three setters go through    *)
(* Builder::map, which runs the setter's closure on a Live builder and     *)
(* latches the closure's error; build consumes the builder.  The component *)
(* parsers, the Parts -> Uri conversion and Uri::into_parts live outside   *)
(* builder.rs and are modelled from their documented contract.             *)
(***************************************************************************)
EXTENDS Naturals, Sequences, FiniteSets, TLC

\* Longest setter chain explored.
MaxCalls == 3

---------------------------------------------------------------------------
\* Result<T, Error> and Option<T>

Ok(v) == [ok |-> TRUE, val |-> v]

Err(e) == [ok |-> FALSE, err |-> e]

None == <<>>

Some(v) == <<v>>

Unit == "()"

---------------------------------------------------------------------------
\* Setter inputs (textual form) and the validated component values

SchemeInputs == {"https", "http", "!@#%/^", "!bad"}

AuthorityInputs == {"example.org", "exa mple"}

PathAndQueryInputs == {"/", "/hello?foo=bar", "/a b"}

ValidSchemeText == {"https", "http"}

ValidAuthorityText == {"example.org"}

ValidPathAndQueryText == {"/", "/hello?foo=bar"}

Scheme == {[kind |-> "Scheme", data |-> t] : t \in ValidSchemeText}

Authority == {[kind |-> "Authority", data |-> t] : t \in ValidAuthorityText}

PathAndQuery == {[kind |-> "PathAndQuery", data |-> t] : t \in ValidPathAndQueryText}

\* The values a Uri holds for an absent component.
SchemeNone == [kind |-> "Scheme", data |-> ""]

AuthorityEmpty == [kind |-> "Authority", data |-> ""]

PathAndQueryEmpty == [kind |-> "PathAndQuery", data |-> ""]

Option(S) == {None} \cup {Some(v) : v \in S}

Parts == [scheme : Option(Scheme), authority : Option(Authority),
          path_and_query : Option(PathAndQuery)]

PartsDefault == [scheme |-> None, authority |-> None, path_and_query |-> None]

\* http::Error carrying a component or combination error.
Error_from(e) == [kind |-> "http::Error", inner |-> e]

parse_scheme(input) ==
    IF input \in ValidSchemeText
      THEN Ok([kind |-> "Scheme", data |-> input])
      ELSE Err([kind |-> "InvalidUri", slot |-> "scheme", input |-> input])

parse_authority(input) ==
    IF input \in ValidAuthorityText
      THEN Ok([kind |-> "Authority", data |-> input])
      ELSE Err([kind |-> "InvalidUri", slot |-> "authority", input |-> input])

parse_path_and_query(input) ==
    IF input \in ValidPathAndQueryText
      THEN Ok([kind |-> "PathAndQuery", data |-> input])
      ELSE Err([kind |-> "InvalidUri", slot |-> "path_and_query", input |-> input])

\* The Finalizer: Parts -> Uri, rejecting the illegal combinations.
from_parts(src) ==
    LET uri == [scheme |-> IF src.scheme = None THEN SchemeNone ELSE src.scheme[1],
                authority |-> IF src.authority = None THEN AuthorityEmpty
                              ELSE src.authority[1],
                path_and_query |-> IF src.path_and_query = None THEN PathAndQueryEmpty
                                   ELSE src.path_and_query[1]]
    IN  IF src.scheme # None
          THEN IF src.authority = None
                 THEN Err([kind |-> "InvalidUriParts", what |-> "AuthorityMissing"])
               ELSE IF src.path_and_query = None
                 THEN Err([kind |-> "InvalidUriParts", what |-> "PathAndQueryMissing"])
               ELSE Ok(uri)
        ELSE IF src.authority # None /\ src.path_and_query # None
          THEN Err([kind |-> "InvalidUriParts", what |-> "SchemeMissing"])
        ELSE Ok(uri)

\* Uri::into_parts: a component the Uri does not have becomes an unset slot.
into_parts(src) ==
    [scheme |-> IF src.scheme = SchemeNone THEN None ELSE Some(src.scheme),
     authority |-> IF src.authority = AuthorityEmpty THEN None ELSE Some(src.authority),
     path_and_query |-> IF src.path_and_query = PathAndQueryEmpty THEN None
                        ELSE Some(src.path_and_query)]

\* The Uri values: every legal shape over the component values.
Uri ==
    {u \in [scheme : Scheme \cup {SchemeNone},
            authority : Authority \cup {AuthorityEmpty},
            path_and_query : PathAndQuery \cup {PathAndQueryEmpty}] :
        from_parts(into_parts(u)).ok}

\* HttpTryInto::http_try_into, one per target type: the conversion with its
\* error turned into http::Error.
http_try_into_Scheme(input) ==
    LET r == parse_scheme(input) IN IF r.ok THEN r ELSE Err(Error_from(r.err))

http_try_into_Authority(input) ==
    LET r == parse_authority(input) IN IF r.ok THEN r ELSE Err(Error_from(r.err))

http_try_into_PathAndQuery(input) ==
    LET r == parse_path_and_query(input) IN IF r.ok THEN r ELSE Err(Error_from(r.err))

http_try_into_Uri(src) ==
    LET r == from_parts(src) IN IF r.ok THEN r ELSE Err(Error_from(r.err))

---------------------------------------------------------------------------
\* Builder (a value [parts |-> Result<Parts>]).  Every operation returns
\* [ret |-> its return value, ext |-> the collaborators it invoked, in order].

\* Mutant of default: the default builder starts with the "http" scheme set.
default_preset ==
    [parts |-> Ok([PartsDefault EXCEPT !.scheme = Some([kind |-> "Scheme", data |-> "http"])])]

\* impl Default for Builder
default == [parts |-> Ok(PartsDefault)]

\* Builder::new
new == default

\* Mutant of from: the source Uri's components are dropped.
from_dropping(src) == [parts |-> Ok(PartsDefault)]

\* Mutant of from: a Uri without a scheme makes a Poisoned builder.
from_strict(src) ==
    IF src.scheme = SchemeNone
      THEN [parts |-> Err(Error_from([kind |-> "InvalidUriParts", what |-> "SchemeMissing"]))]
      ELSE [parts |-> Ok(into_parts(src))]

\* impl From<Uri> for Builder
from(src) == [parts |-> Ok(into_parts(src))]

\* Mutant of map: the closure's error is not latched.
map_swallowing(self, f) ==
    IF self.parts.ok
      THEN LET out == f[self.parts.val]
           IN  [ret |-> [parts |-> Ok(out.parts)], ext |-> out.ext]
      ELSE [ret |-> self, ext |-> <<>>]

\* Mutant of map: a Poisoned builder runs the closure too, on fresh Parts.
map_reviving(self, f) ==
    LET out == f[IF self.parts.ok THEN self.parts.val ELSE PartsDefault]
    IN  [ret |-> IF out.res.ok THEN [parts |-> Ok(out.parts)]
                 ELSE [parts |-> Err(out.res.err)],
         ext |-> out.ext]

\* Mutant of map: the closure runs on a copy of the Parts, its writes are lost.
map_discarding(self, f) ==
    IF self.parts.ok
      THEN LET out == f[self.parts.val]
           IN  [ret |-> IF out.res.ok THEN self ELSE [parts |-> Err(out.res.err)],
                ext |-> out.ext]
      ELSE [ret |-> self, ext |-> <<>>]

\* Mutant of map: the combination is validated after every successful closure.
map_prevalidating(self, f) ==
    IF self.parts.ok
      THEN LET out == f[self.parts.val]
               chk == http_try_into_Uri(out.parts)
           IN  [ret |-> IF ~out.res.ok THEN [parts |-> Err(out.res.err)]
                        ELSE IF ~chk.ok THEN [parts |-> Err(chk.err)]
                        ELSE [parts |-> Ok(out.parts)],
                ext |-> out.ext \o (IF out.res.ok THEN <<"from_parts">> ELSE <<>>)]
      ELSE [ret |-> self, ext |-> <<>>]

\* Builder::map.  f is the closure, a function from the Parts it is given to
\* [parts |-> the Parts as the closure left it, res |-> its Result<()>,
\*  ext |-> the collaborators it invoked].
map(self, f) ==
    IF self.parts.ok
      THEN LET out == f[self.parts.val]
           IN  [ret |-> IF out.res.ok THEN [parts |-> Ok(out.parts)]
                        ELSE [parts |-> Err(out.res.err)],
                ext |-> out.ext]
      ELSE [ret |-> self, ext |-> <<>>]

\* Mutant of scheme: setting the scheme resets the authority slot.
scheme_clobbering(self, input) ==
    IF self.parts.ok
      THEN LET c == http_try_into_Scheme(input)
           IN  [ret |-> IF c.ok
                          THEN [parts |-> Ok([self.parts.val EXCEPT
                                                !.scheme = Some(c.val),
                                                !.authority = None])]
                          ELSE [parts |-> Err(c.err)],
                ext |-> <<"parse_scheme">>]
      ELSE [ret |-> self, ext |-> <<>>]

\* Mutant of scheme_closure: the slot is taken out before the conversion is tried.
scheme_closure_clearing(input) ==
    [parts \in Parts |->
        LET c == http_try_into_Scheme(input)
        IN  IF c.ok
              THEN [parts |-> [parts EXCEPT !.scheme = Some(c.val)],
                    res |-> Ok(Unit), ext |-> <<"parse_scheme">>]
              ELSE [parts |-> [parts EXCEPT !.scheme = None], res |-> Err(c.err),
                    ext |-> <<"parse_scheme">>]]

\* Mutant of scheme_closure: a failed conversion falls back to the "http" scheme.
scheme_closure_defaulting(input) ==
    [parts \in Parts |->
        LET c == http_try_into_Scheme(input)
        IN  [parts |-> [parts EXCEPT !.scheme =
                            Some(IF c.ok THEN c.val ELSE [kind |-> "Scheme", data |-> "http"])],
             res |-> Ok(Unit), ext |-> <<"parse_scheme">>]]

\* The closure of Builder::scheme:
\* `|parts| { parts.scheme = Some(scheme.http_try_into()?); Ok(()) }`.
\* The `?` returns the conversion error before the assignment.
scheme_closure(input) ==
    [parts \in Parts |->
        LET c == http_try_into_Scheme(input)
        IN  IF c.ok
              THEN [parts |-> [parts EXCEPT !.scheme = Some(c.val)],
                    res |-> Ok(Unit), ext |-> <<"parse_scheme">>]
              ELSE [parts |-> parts, res |-> Err(c.err), ext |-> <<"parse_scheme">>]]

\* Builder::scheme
scheme(self, input) == map(self, scheme_closure(input))

\* The closure of Builder::authority
authority_closure(auth) ==
    [parts \in Parts |->
        LET c == http_try_into_Authority(auth)
        IN  IF c.ok
              THEN [parts |-> [parts EXCEPT !.authority = Some(c.val)],
                    res |-> Ok(Unit), ext |-> <<"parse_authority">>]
              ELSE [parts |-> parts, res |-> Err(c.err), ext |-> <<"parse_authority">>]]

\* Mutant of authority: the input is converted before map is entered.
authority_eager(self, auth) ==
    LET r == map(self, authority_closure(auth))
    IN  [ret |-> r.ret, ext |-> <<"parse_authority">>]

\* Builder::authority
authority(self, auth) == map(self, authority_closure(auth))

\* Mutant of path_and_query: the converted value is stored only in an unset slot.
path_and_query_keeping(self, p_and_q) ==
    IF self.parts.ok
      THEN LET c == http_try_into_PathAndQuery(p_and_q)
           IN  [ret |-> IF c.ok
                          THEN [parts |-> Ok([self.parts.val EXCEPT
                                   !.path_and_query = IF @ = None THEN Some(c.val) ELSE @])]
                          ELSE [parts |-> Err(c.err)],
                ext |-> <<"parse_path_and_query">>]
      ELSE [ret |-> self, ext |-> <<>>]

\* Mutant of path_and_query_closure: the value is stored into fresh Parts.
path_and_query_closure_fresh(p_and_q) ==
    [parts \in Parts |->
        LET c == http_try_into_PathAndQuery(p_and_q)
        IN  IF c.ok
              THEN [parts |-> [PartsDefault EXCEPT !.path_and_query = Some(c.val)],
                    res |-> Ok(Unit), ext |-> <<"parse_path_and_query">>]
              ELSE [parts |-> parts, res |-> Err(c.err),
                    ext |-> <<"parse_path_and_query">>]]

\* The closure of Builder::path_and_query
path_and_query_closure(p_and_q) ==
    [parts \in Parts |->
        LET c == http_try_into_PathAndQuery(p_and_q)
        IN  IF c.ok
              THEN [parts |-> [parts EXCEPT !.path_and_query = Some(c.val)],
                    res |-> Ok(Unit), ext |-> <<"parse_path_and_query">>]
              ELSE [parts |-> parts, res |-> Err(c.err),
                    ext |-> <<"parse_path_and_query">>]]

\* Builder::path_and_query
path_and_query(self, p_and_q) == map(self, path_and_query_closure(p_and_q))

\* Mutant of build: the Finalizer runs on a Poisoned builder too, and its
\* error is the one returned.
build_finalizing(self) ==
    LET r == http_try_into_Uri(IF self.parts.ok THEN self.parts.val ELSE PartsDefault)
    IN  [ret |-> IF ~r.ok THEN Err(r.err)
                 ELSE IF ~self.parts.ok THEN Err(self.parts.err)
                 ELSE Ok(r.val),
         ext |-> <<"from_parts">>]

\* Mutant of build: a Finalizer error is replaced by the Uri of the default Parts.
build_lenient(self) ==
    IF ~self.parts.ok
      THEN [ret |-> Err(self.parts.err), ext |-> <<>>]
      ELSE LET r == http_try_into_Uri(self.parts.val)
           IN  [ret |-> IF r.ok THEN Ok(r.val) ELSE Ok(from_parts(PartsDefault).val),
                ext |-> <<"from_parts">>]

\* Builder::build: `Ok(self.parts?.http_try_into()?)`
build(self) ==
    IF ~self.parts.ok
      THEN [ret |-> Err(self.parts.err), ext |-> <<>>]
      ELSE LET r == http_try_into_Uri(self.parts.val)
           IN  [ret |-> IF r.ok THEN Ok(r.val) ELSE Err(r.err),
                ext |-> <<"from_parts">>]

---------------------------------------------------------------------------
\* One builder chain: constructor, setters in program order, terminal build.

VARIABLES
    origin,    \* the constructor call: [ctor |-> "new"] or [ctor |-> "from", src |-> u]
    builder,   \* the Builder value the chain holds (as last held, once moved into build)
    calls,     \* the setter calls made so far, in order: [slot, input]
    pc,        \* "chain" while the caller owns the builder, "consumed" after build
    result,    \* None, or Some(what build returned)
    ext        \* the collaborators invoked so far, in order

vars == <<origin, builder, calls, pc, result, ext>>

Init ==
    /\ \/ origin = [ctor |-> "new"] /\ builder = new
       \/ \E u \in Uri : origin = [ctor |-> "from", src |-> u] /\ builder = from(u)
    /\ calls = <<>>
    /\ pc = "chain"
    /\ result = None
    /\ ext = <<>>

\* builder = builder.scheme(input): the setter takes self by value and returns it.
CallScheme ==
    \E input \in SchemeInputs :
        /\ pc = "chain"
        /\ Len(calls) < MaxCalls
        /\ LET r == scheme(builder, input)
           IN  builder' = r.ret /\ ext' = ext \o r.ext
        /\ calls' = Append(calls, [slot |-> "scheme", input |-> input])
        /\ UNCHANGED <<origin, pc, result>>

CallAuthority ==
    \E input \in AuthorityInputs :
        /\ pc = "chain"
        /\ Len(calls) < MaxCalls
        /\ LET r == authority(builder, input)
           IN  builder' = r.ret /\ ext' = ext \o r.ext
        /\ calls' = Append(calls, [slot |-> "authority", input |-> input])
        /\ UNCHANGED <<origin, pc, result>>

CallPathAndQuery ==
    \E input \in PathAndQueryInputs :
        /\ pc = "chain"
        /\ Len(calls) < MaxCalls
        /\ LET r == path_and_query(builder, input)
           IN  builder' = r.ret /\ ext' = ext \o r.ext
        /\ calls' = Append(calls, [slot |-> "path_and_query", input |-> input])
        /\ UNCHANGED <<origin, pc, result>>

\* Mutant of CallBuild: build borrows the builder, which stays usable.
CallBuild_borrowing ==
    /\ pc = "chain"
    /\ LET r == build(builder)
       IN  result' = Some(r.ret) /\ ext' = ext \o r.ext
    /\ UNCHANGED <<origin, builder, calls, pc>>

\* builder.build(): build takes self by value, so the builder is gone afterwards.
CallBuild ==
    /\ pc = "chain"
    /\ LET r == build(builder)
       IN  result' = Some(r.ret) /\ ext' = ext \o r.ext
    /\ pc' = "consumed"
    /\ UNCHANGED <<origin, builder, calls>>

Next == CallScheme \/ CallAuthority \/ CallPathAndQuery \/ CallBuild

Spec == Init /\ [][Next]_vars

---------------------------------------------------------------------------
\* What the claims speak of: the chain as written by the caller.

\* The conversion a setter call's input undergoes.
Convert(call) ==
    CASE call.slot = "scheme" -> http_try_into_Scheme(call.input)
      [] call.slot = "authority" -> http_try_into_Authority(call.input)
      [] call.slot = "path_and_query" -> http_try_into_PathAndQuery(call.input)

AllConvert(s) == \A i \in 1..Len(s) : Convert(s[i]).ok

\* The index of the first call of s whose input fails conversion.
FirstFailing(s) ==
    CHOOSE i \in 1..Len(s) : ~Convert(s[i]).ok /\ \A j \in 1..(i - 1) : Convert(s[j]).ok

\* The converted value of the last call of s targeting slot; None if there is none.
LastValue(s, slot) ==
    LET hits == {i \in 1..Len(s) : s[i].slot = slot}
    IN  IF hits = {} THEN None
        ELSE Some(Convert(s[CHOOSE i \in hits : \A j \in hits : j <= i]).val)

Poisoned == ~builder.parts.ok

Live == builder.parts.ok

\* C1: first-error-wins.  When the chain holds a setter call whose input fails
\* conversion, build returns an error, and it is the conversion error of the
\* first such call: not a later call's, not the Finalizer's.
FirstErrorWins ==
    (pc = "consumed" /\ ~AllConvert(calls))
        => result = Some(Err(Convert(calls[FirstFailing(calls)]).err))

\* A chain with two failing calls of different errors and a valid call before
\* them, built: the result is the earlier error.
FirstErrorWinsWitness ==
    /\ pc = "consumed"
    /\ Len(calls) = 3
    /\ Convert(calls[1]).ok /\ ~Convert(calls[2]).ok /\ ~Convert(calls[3]).ok
    /\ Convert(calls[2]).err # Convert(calls[3]).err
    /\ result = Some(Err(Convert(calls[2]).err))

\* C2: poison monotonicity.  Every step taken from a Poisoned builder leaves the
\* builder as it was: still Poisoned, with the same latched error.
PoisonMonotone == [][(pc = "chain" /\ Poisoned) => builder' = builder]_vars

\* Poisoned by the first call, then given a valid input and another invalid
\* one: the latched error is still the first call's.
PoisonMonotoneWitness ==
    /\ pc = "chain"
    /\ Len(calls) = 3
    /\ ~Convert(calls[1]).ok /\ Convert(calls[2]).ok /\ ~Convert(calls[3]).ok
    /\ Convert(calls[1]).err # Convert(calls[3]).err
    /\ builder.parts = Err(Convert(calls[1]).err)

\* C3: last-write-wins.  From new(), after setter calls whose inputs all
\* convert, each slot holds the converted value of the last call that targeted
\* it, and is unset when no call did.
LastWriteWins ==
    (origin.ctor = "new" /\ AllConvert(calls))
        => builder.parts = Ok([scheme |-> LastValue(calls, "scheme"),
                              authority |-> LastValue(calls, "authority"),
                              path_and_query |-> LastValue(calls, "path_and_query")])

\* The same setter with a then b (a # b), another slot set in between, one
\* slot never targeted: the slot holds b.
LastWriteWinsWitness ==
    /\ origin.ctor = "new"
    /\ pc = "chain"
    /\ Len(calls) = 3
    /\ calls[1].slot = "path_and_query" /\ calls[3].slot = "path_and_query"
    /\ calls[2].slot = "scheme"
    /\ AllConvert(calls)
    /\ calls[1].input # calls[3].input
    /\ Live
    /\ builder.parts.val.path_and_query = Some(Convert(calls[3]).val)
    /\ builder.parts.val.authority = None

\* The builder a constructor call returns.
Construct(o) == IF o.ctor = "new" THEN new ELSE from(o.src)

\* The builder after one setter call.
Apply(b, call) ==
    CASE call.slot = "scheme" -> scheme(b, call.input).ret
      [] call.slot = "authority" -> authority(b, call.input).ret
      [] call.slot = "path_and_query" -> path_and_query(b, call.input).ret

RECURSIVE RunSetters(_, _)
RunSetters(b, s) == IF Len(s) = 0 THEN b ELSE RunSetters(Apply(b, Head(s)), Tail(s))

\* What build returns for the chain: constructor o, setter calls s, build.
Chain(o, s) == build(RunSetters(Construct(o), s)).ret

\* s reordered by the permutation p of its indices.
Reorder(s, p) == [i \in 1..Len(s) |-> s[p[i]]]

\* Two call sequences cover the same slots with the same values.
SameCover(s, t) ==
    \A slot \in {"scheme", "authority", "path_and_query"} :
        LastValue(s, slot) = LastValue(t, slot)

\* C4: order independence.  When all the chain's inputs convert, every
\* reordering of its setter calls that covers the same slots with the same
\* values, applied to the same initial builder, builds the same result (the
\* same Uri or the same Finalizer error) as the chain did.
OrderIndependence ==
    (pc = "consumed" /\ AllConvert(calls))
        => \A p \in Permutations(1..Len(calls)) :
              SameCover(Reorder(calls, p), calls)
                  => Some(Chain(origin, Reorder(calls, p))) = result

\* Three calls on three slots, built from a Uri: the reversed chain is another
\* sequence with the same cover and the same (Uri) result.
OrderIndependenceWitness ==
    /\ pc = "consumed"
    /\ origin.ctor = "from"
    /\ Len(calls) = 3
    /\ AllConvert(calls)
    /\ {calls[i].slot : i \in 1..3} = {"scheme", "authority", "path_and_query"}
    /\ LET rev == <<calls[3], calls[2], calls[1]>>
       IN  /\ SameCover(rev, calls)
           /\ Some(Chain(origin, rev)) = result
    /\ result[1].ok

\* C5: round trip.  from(u) with no setter call builds u.
RoundTrip ==
    (pc = "consumed" /\ origin.ctor = "from" /\ calls = <<>>)
        => result = Some(Ok(origin.src))

\* An authority-form Uri (no scheme, no path) round-trips.
RoundTripWitness ==
    /\ pc = "consumed"
    /\ origin.ctor = "from"
    /\ calls = <<>>
    /\ origin.src.scheme = SchemeNone
    /\ origin.src.authority # AuthorityEmpty
    /\ result = Some(Ok(origin.src))

\* C6: build outcome.  build on a Poisoned builder returns the latched error;
\* build on a Live builder returns what the Finalizer returns for the current
\* Parts.  The one result carries the latched error or the Finalizer's, so
\* never two errors.
BuildOutcome ==
    pc = "consumed"
        => /\ Len(result) = 1
           /\ Poisoned => result[1] = Err(builder.parts.err)
           /\ Live => result[1] = http_try_into_Uri(builder.parts.val)

\* A Live builder in an illegal combination, built: the Finalizer's error.
BuildOutcomeWitness ==
    /\ pc = "consumed"
    /\ Live
    /\ calls # <<>>
    /\ ~from_parts(builder.parts.val).ok
    /\ result = Some(Err(Error_from(from_parts(builder.parts.val).err)))

\* The number of Finalizer invocations so far.
Finalized == Cardinality({i \in 1..Len(ext) : ext[i] = "from_parts"})

\* C7 as claimed: every builder that reached build has invoked the Finalizer
\* exactly once when build returns (and none has before build).
FinalizerExactlyOnce ==
    /\ pc = "chain" => Finalized = 0
    /\ pc = "consumed" => Finalized = 1

\* C7 as amended: no constructor or setter invokes the Finalizer; build invokes
\* it exactly once on a Live builder and not at all on a Poisoned one.
FinalizerOnceIfLive ==
    /\ pc = "chain" => Finalized = 0
    /\ (pc = "consumed" /\ Live) => Finalized = 1
    /\ (pc = "consumed" /\ Poisoned) => Finalized = 0

\* A Live builder after three setter calls, built: one invocation.
FinalizerOnceIfLiveWitness ==
    /\ pc = "consumed"
    /\ Live
    /\ Len(calls) = 3
    /\ Finalized = 1
    /\ ext[Len(ext)] = "from_parts"

\* C8: no pre-validation.  A setter given a converting input on a Live
\* builder returns a Live builder whatever the combination of slots; an illegal
\* combination shows only at build, as the Finalizer's error.
NoPreValidation ==
    /\ [][(pc = "chain" /\ Live /\ calls' # calls /\ Convert(calls'[Len(calls')]).ok)
            => builder'.parts.ok]_vars
    /\ [](pc = "consumed" /\ Live /\ ~from_parts(builder.parts.val).ok
            => result = Some(Err(Error_from(from_parts(builder.parts.val).err))))

\* scheme set with authority unset: the builder is Live before build.
NoPreValidationWitness ==
    /\ pc = "chain"
    /\ origin.ctor = "new"
    /\ calls # <<>>
    /\ calls[Len(calls)].slot = "scheme"
    /\ Live
    /\ builder.parts.val.scheme # None
    /\ builder.parts.val.authority = None
    /\ ~from_parts(builder.parts.val).ok

\* C9: full chain.  new().scheme(s).authority(a).path_and_query(p).build(), all
\* three inputs converting, returns a Uri made of the three converted values.
FullChain ==
    (/\ pc = "consumed"
     /\ origin.ctor = "new"
     /\ Len(calls) = 3
     /\ calls[1].slot = "scheme"
     /\ calls[2].slot = "authority"
     /\ calls[3].slot = "path_and_query"
     /\ AllConvert(calls))
        => result = Some(Ok([scheme |-> Convert(calls[1]).val,
                             authority |-> Convert(calls[2]).val,
                             path_and_query |-> Convert(calls[3]).val]))

\* new().scheme("https").authority("example.org").path_and_query("/").build()
FullChainWitness ==
    /\ pc = "consumed"
    /\ origin.ctor = "new"
    /\ calls = <<[slot |-> "scheme", input |-> "https"],
                 [slot |-> "authority", input |-> "example.org"],
                 [slot |-> "path_and_query", input |-> "/"]>>
    /\ result[1].ok
    /\ result[1].val.scheme.data = "https"
    /\ result[1].val.authority.data = "example.org"
    /\ result[1].val.path_and_query.data = "/"

\* C10: single use.  build is available to every builder not yet consumed; a
\* result is emitted only by the step that consumes the builder, one result
\* (a Uri or one error); nothing is enabled on a consumed builder.
SingleUse ==
    /\ [](pc = "chain" => (result = None /\ ENABLED CallBuild))
    /\ [](pc = "consumed" => (Len(result) = 1 /\ ~ENABLED Next))
    /\ [][pc = "chain" /\ (result' # result <=> pc' = "consumed")]_vars

\* A consumed builder holding an error result.
SingleUseWitness ==
    /\ pc = "consumed"
    /\ Len(result) = 1
    /\ ~result[1].ok
    /\ calls # <<>>
    /\ ~ENABLED Next

\* The closure a setter call hands to map.
Closure(call) ==
    CASE call.slot = "scheme" -> scheme_closure(call.input)
      [] call.slot = "authority" -> authority_closure(call.input)
      [] call.slot = "path_and_query" -> path_and_query_closure(call.input)

\* The step is a setter call on a Live builder whose input fails conversion.
FailingSetterStep ==
    /\ pc = "chain"
    /\ Live
    /\ calls' # calls
    /\ ~Convert(calls'[Len(calls')]).ok

\* C11 as claimed: after a setter call whose input fails conversion, the three
\* slots of the builder's Parts hold the values they held before the call.
FailingSetterKeepsSlots ==
    [][FailingSetterStep
         => (builder'.parts.ok /\ builder'.parts.val = builder.parts.val)]_vars

\* C11 as amended: a setter call whose input fails conversion writes no slot
\* (its closure returns the error with the Parts as it received them), and the
\* builder then holds the conversion error in place of its Parts.
FailingSetterWritesNoSlot ==
    [][FailingSetterStep
         => LET out == Closure(calls'[Len(calls')])[builder.parts.val]
            IN  /\ out.parts = builder.parts.val
                /\ ~out.res.ok
                /\ builder'.parts = Err(out.res.err)]_vars

\* from(u) with all three components, then a scheme that fails conversion.
FailingSetterWritesNoSlotWitness ==
    /\ pc = "chain"
    /\ origin.ctor = "from"
    /\ into_parts(origin.src).scheme # None
    /\ Len(calls) = 1
    /\ calls[1].slot = "scheme"
    /\ ~Convert(calls[1]).ok
    /\ builder.parts = Err(Convert(calls[1]).err)

\* C12: valid then invalid on the same slot.  When a setter is given a valid
\* input on a Live builder and the same setter is then given an input that
\* fails conversion, the builder is Poisoned with the second call's error from
\* then on (the first value is gone, later setters change nothing), and build
\* returns that error.
ValidThenInvalid ==
    \A i \in 1..(Len(calls) - 1) :
        (/\ AllConvert(SubSeq(calls, 1, i))
         /\ calls[i + 1].slot = calls[i].slot
         /\ ~Convert(calls[i + 1]).ok)
            => /\ builder.parts = Err(Convert(calls[i + 1]).err)
               /\ pc = "consumed" => result = Some(Err(Convert(calls[i + 1]).err))

\* new().scheme("https").scheme("!bad").authority("example.org").build()
ValidThenInvalidWitness ==
    /\ pc = "consumed"
    /\ origin.ctor = "new"
    /\ calls = <<[slot |-> "scheme", input |-> "https"],
                 [slot |-> "scheme", input |-> "!bad"],
                 [slot |-> "authority", input |-> "example.org"]>>
    /\ result = Some(Err(Error_from(parse_scheme("!bad").err)))

\* The number of component parser invocations so far.
Parsed == Cardinality({i \in 1..Len(ext) : ext[i] # "from_parts"})

\* C13: a setter called on a Poisoned builder does not attempt the conversion
\* (no collaborator is invoked by the call) and returns the builder unchanged.
NoConversionWhenPoisoned ==
    [][(pc = "chain" /\ Poisoned /\ calls' # calls)
         => (ext' = ext /\ builder' = builder)]_vars

\* Poisoned by the first call; an authority call with a valid input and one
\* with an invalid input follow: one parser invocation in all.
NoConversionWhenPoisonedWitness ==
    /\ pc = "chain"
    /\ Len(calls) = 3
    /\ ~Convert(calls[1]).ok
    /\ calls[2].slot = "authority" /\ Convert(calls[2]).ok
    /\ calls[3].slot = "authority" /\ ~Convert(calls[3]).ok
    /\ Parsed = 1
    /\ Len(ext) = 1
    /\ Poisoned

\* The slots other than the given one.
OtherSlots(slot) == {"scheme", "authority", "path_and_query"} \ {slot}

InitialStates ==
    calls = <<>>
        => /\ Live
           /\ origin.ctor = "new"
                => /\ \A slot \in {"scheme", "authority", "path_and_query"} :
                          builder.parts.val[slot] = None
                   /\ pc = "consumed" => result = Some(http_try_into_Uri(PartsDefault))
           /\ origin.ctor = "from" => builder.parts.val = into_parts(origin.src)

\* new().build(): the Finalizer's answer for the all-unset Parts.
InitialStatesWitness ==
    /\ calls = <<>>
    /\ origin.ctor = "new"
    /\ pc = "consumed"
    /\ Live
    /\ builder.parts.val = PartsDefault
    /\ result = Some(from_parts(PartsDefault))
    /\ ext = <<"from_parts">>

\* C16: validated slots.  In every Live state each set slot holds the value a
\* successful conversion of one of the chain's inputs for that slot returned,
\* or the component the source Uri decomposed into; never anything else.
ValidatedSlots ==
    Live
      => /\ builder.parts.val \in Parts
         /\ \A slot \in {"scheme", "authority", "path_and_query"} :
              LET v == builder.parts.val[slot]
              IN  \/ v = None
                  \/ \E i \in 1..Len(calls) :
                        /\ calls[i].slot = slot
                        /\ Convert(calls[i]).ok
                        /\ v = Some(Convert(calls[i]).val)
                  \/ /\ origin.ctor = "from"
                     /\ v = into_parts(origin.src)[slot]

\* from(u), u an authority alone, then a scheme and a path: two slots hold
\* converted inputs, one holds u's component.
ValidatedSlotsWitness ==
    /\ pc = "chain"
    /\ origin.ctor = "from"
    /\ into_parts(origin.src).scheme = None
    /\ into_parts(origin.src).path_and_query = None
    /\ Len(calls) = 2
    /\ calls[1].slot = "scheme" /\ calls[2].slot = "path_and_query"
    /\ Live
    /\ builder.parts.val.scheme = Some(Convert(calls[1]).val)
    /\ builder.parts.val.authority = Some(origin.src.authority)
    /\ builder.parts.val.path_and_query = Some(Convert(calls[2]).val)

\* C18: poisoned only by a failing setter.  A builder is Poisoned exactly when
\* some setter call of its chain had an input that failed conversion (so never
\* straight from a constructor); when every input converts, the builder is Live
\* at build and an error build returns is the Finalizer's combination error.
PoisonedIffFailed ==
    /\ Poisoned <=> ~AllConvert(calls)
    /\ (pc = "consumed" /\ AllConvert(calls) /\ ~result[1].ok)
          => /\ ~from_parts(builder.parts.val).ok
             /\ result[1].err = Error_from(from_parts(builder.parts.val).err)

\* from(u), u an authority alone, then three converting calls ending in an
\* illegal combination: Live at build, and the error is the Finalizer's.
PoisonedIffFailedWitness ==
    /\ pc = "consumed"
    /\ origin.ctor = "from"
    /\ origin.src.scheme = SchemeNone
    /\ Len(calls) = 3
    /\ AllConvert(calls)
    /\ Live
    /\ ~result[1].ok
    /\ result[1].err.inner.kind = "InvalidUriParts"

====
